---- MODULE Spec2Model ----
(***************************************************************************)
(* The decision-tree notebook src/nb/tree.ipynb as a state machine: the    *)
(* kernel variables of the notebook are the state, each code cell (and     *)
(* each statement of the sweep loop's body) is an action.                  *)
(*                                                                         *)
(* The Spark / MLlib calls are external collaborators.  They are modelled  *)
(* by what their callers rely on:                                          *)
(*   - randomSplit draws a seed from the kernel's pseudo random generator  *)
(*     and sends every element to exactly one of the two parts;            *)
(*   - trainClassifier is a deterministic learner that may also raise;     *)
(*   - model.predict is a function of the feature vector.                  *)
(* A float quotient a / float(b) is kept as the fraction <<a, b>> in       *)
(* lowest terms.                                                           *)
(***************************************************************************)
EXTENDS Integers, Sequences, FiniteSets, TLC

VARIABLES
    pc,          \* the statement the kernel executes next
    error,       \* the exception that ended the run, "none" while running
    dat,         \* the raw records of the DataFrame (one partition)
    lp,          \* the cached RDD of LabeledPoints
    german_cfi,  \* the categorical registry
    model,       \* the last DecisionTreeModel
    val_dat,     \* the sweep's result table
    obs,         \* loop variable of the outer loop
    max_depth,   \* loop variable of the inner loop
    lp_train,    \* training part of the current split
    lp_val,      \* validation part of the current split
    train_err,   \* last training error
    val_err,     \* last validation error
    rng,         \* state of the kernel's pseudo random generator
    seed,        \* the seed randomSplit drew for the current split
    learner,     \* which deterministic learner the MLlib build is
    nSplit,      \* number of randomSplit calls made so far
    trainLog     \* the trainClassifier calls made so far, in order

vars == << pc, error, dat, lp, german_cfi, model, val_dat, obs, max_depth,
           lp_train, lp_val, train_err, val_err, rng, seed, learner,
           nSplit, trainLog >>

----------------------------------------------------------------------------
(* Bounds of the model and constants of the program *)

MaxN == 3          \* largest dataset of the pipeline
MaxSeed == 3       \* initial generator states 0..MaxSeed
MaxRaw == 5        \* raw values -1..MaxRaw tried per edited field
MaxMissing == 2    \* at most this many fields dropped from a record

NumTrials == 30    \* range(30)
DepthLo == 2       \* range(2,8)
DepthHi == 7       \* range(2,8)
SingleMaxDepth == 3    \* maxDepth=3 of the single-model cell

----------------------------------------------------------------------------
(* The schema *)

\* the feature fields in the order german_lp lists them
FeatureFields ==
    << "acct_bal", "dur_cred", "pay_stat", "purpose", "cred_amt", "value",
       "len_emp", "install_pc", "sex_married", "guarantors", "dur_addr",
       "max_val", "age", "concurr", "typ_aprtmnt", "no_creds", "occupation",
       "no_dep", "telephone", "foreign_wkr" >>

\* the keys german_lp reads, in the order it reads them
ReadOrder == << "cred" >> \o FeatureFields

AllFields == { ReadOrder[i] : i \in 1..Len(ReadOrder) }

\* first row of the german credit table
ExampleRecord ==
    [ acct_bal |-> 1, dur_cred |-> 6, pay_stat |-> 4, purpose |-> 2,
      cred_amt |-> 1169, value |-> 5, len_emp |-> 5, install_pc |-> 4,
      sex_married |-> 3, guarantors |-> 1, dur_addr |-> 4, max_val |-> 2,
      age |-> 67, concurr |-> 3, typ_aprtmnt |-> 2, no_creds |-> 2,
      occupation |-> 3, no_dep |-> 1, telephone |-> 2, foreign_wkr |-> 1,
      cred |-> 1 ]

----------------------------------------------------------------------------
(* german_lp *)

LabeledPoint(label, feats) == [ tag |-> "LabeledPoint", label |-> label, features |-> feats ]

KeyError(k) == [ tag |-> "KeyError", key |-> k ]

\* the first key, in reading order, that the dict lacks
FirstMissing(vals) ==
    LET i == CHOOSE j \in 1..Len(ReadOrder) :
                 /\ ReadOrder[j] \notin DOMAIN vals
                 /\ \A k \in 1..(j-1) : ReadOrder[k] \in DOMAIN vals
    IN  ReadOrder[i]

\* german_lp with the -1 forgotten on 'value'
german_lp_unshifted(x) ==
    LET vals == x IN
    IF ~(AllFields \subseteq DOMAIN vals)
    THEN KeyError(FirstMissing(vals))
    ELSE LabeledPoint(vals["cred"],
           << vals["acct_bal"]-1, vals["dur_cred"], vals["pay_stat"],
              vals["purpose"], vals["cred_amt"], vals["value"],
              vals["len_emp"]-1, vals["install_pc"]-1, vals["sex_married"]-1,
              vals["guarantors"]-1, vals["dur_addr"]-1, vals["max_val"]-1,
              vals["age"], vals["concurr"]-1, vals["typ_aprtmnt"]-1,
              vals["no_creds"]-1, vals["occupation"]-1, vals["no_dep"]-1,
              vals["telephone"]-1, vals["foreign_wkr"]-1 >>)

\* german_lp shifting 'acct_bal' by 2
german_lp_shift2(x) ==
    LET vals == x IN
    IF ~(AllFields \subseteq DOMAIN vals)
    THEN KeyError(FirstMissing(vals))
    ELSE LabeledPoint(vals["cred"],
           << vals["acct_bal"]-2, vals["dur_cred"], vals["pay_stat"],
              vals["purpose"], vals["cred_amt"], vals["value"]-1,
              vals["len_emp"]-1, vals["install_pc"]-1, vals["sex_married"]-1,
              vals["guarantors"]-1, vals["dur_addr"]-1, vals["max_val"]-1,
              vals["age"], vals["concurr"]-1, vals["typ_aprtmnt"]-1,
              vals["no_creds"]-1, vals["occupation"]-1, vals["no_dep"]-1,
              vals["telephone"]-1, vals["foreign_wkr"]-1 >>)

\* german_lp reading with vals.get(key, 1): a default for a missing field
german_lp_defaulting(x) ==
    LET vals == [ f \in AllFields |-> IF f \in DOMAIN x THEN x[f] ELSE 1 ] IN
    LabeledPoint(vals["cred"],
           << vals["acct_bal"]-1, vals["dur_cred"], vals["pay_stat"],
              vals["purpose"], vals["cred_amt"], vals["value"]-1,
              vals["len_emp"]-1, vals["install_pc"]-1, vals["sex_married"]-1,
              vals["guarantors"]-1, vals["dur_addr"]-1, vals["max_val"]-1,
              vals["age"], vals["concurr"]-1, vals["typ_aprtmnt"]-1,
              vals["no_creds"]-1, vals["occupation"]-1, vals["no_dep"]-1,
              vals["telephone"]-1, vals["foreign_wkr"]-1 >>)

\* def german_lp(x): a missing key raises KeyError at the first vals[...]
\* that reads it, otherwise the label and the 20 features
german_lp(x) ==
    LET vals == x IN
    IF ~(AllFields \subseteq DOMAIN vals)
    THEN KeyError(FirstMissing(vals))
    ELSE LabeledPoint(vals["cred"],
           << vals["acct_bal"]-1,
              vals["dur_cred"],
              vals["pay_stat"],
              vals["purpose"],
              vals["cred_amt"],
              vals["value"]-1,
              vals["len_emp"]-1,
              vals["install_pc"]-1,
              vals["sex_married"]-1,
              vals["guarantors"]-1,
              vals["dur_addr"]-1,
              vals["max_val"]-1,
              vals["age"],
              vals["concurr"]-1,
              vals["typ_aprtmnt"]-1,
              vals["no_creds"]-1,
              vals["occupation"]-1,
              vals["no_dep"]-1,
              vals["telephone"]-1,
              vals["foreign_wkr"]-1 >>)

----------------------------------------------------------------------------
(* german_cfi *)

\* the registry with its last key written 20 instead of 19
GermanCfiOffByOne ==
    (0 :> 4) @@ (5 :> 5) @@ (6 :> 5) @@ (7 :> 4) @@ (8 :> 4) @@ (9 :> 3) @@
    (10 :> 4) @@ (11 :> 4) @@ (13 :> 3) @@ (14 :> 3) @@ (15 :> 4) @@
    (16 :> 4) @@ (17 :> 2) @@ (18 :> 2) @@ (20 :> 2)

\* the registry with 'pay_stat' (position 2) registered as categorical too
GermanCfiWithPayStat ==
    (0 :> 4) @@ (2 :> 5) @@ (5 :> 5) @@ (6 :> 5) @@ (7 :> 4) @@ (8 :> 4) @@
    (9 :> 3) @@ (10 :> 4) @@ (11 :> 4) @@ (13 :> 3) @@ (14 :> 3) @@
    (15 :> 4) @@ (16 :> 4) @@ (17 :> 2) @@ (18 :> 2) @@ (19 :> 2)

\* german_cfi = {0:4,5:5,6:5,7:4,8:4,9:3,10:4,11:4,13:3,14:3,15:4,16:4,17:2,18:2,19:2}
GermanCfi ==
    (0 :> 4) @@ (5 :> 5) @@ (6 :> 5) @@ (7 :> 4) @@ (8 :> 4) @@ (9 :> 3) @@
    (10 :> 4) @@ (11 :> 4) @@ (13 :> 3) @@ (14 :> 3) @@ (15 :> 4) @@
    (16 :> 4) @@ (17 :> 2) @@ (18 :> 2) @@ (19 :> 2)

----------------------------------------------------------------------------
(* The inputs: what the SELECT of the data source can return *)

Edit(r, f, v) == [ r EXCEPT ![f] = v ]

Drop(r, D) == [ f \in (DOMAIN r) \ D |-> r[f] ]

RawValues == (-1)..MaxRaw

\* the example row with one, then two, fields set to a small raw value
OneEdit == { Edit(ExampleRecord, f, v) : f \in AllFields, v \in RawValues }

TwoEdits == { Edit(r, f, v) : r \in OneEdit, f \in AllFields, v \in RawValues }

RECURSIVE FieldSets(_)
\* the sets of at most k fields
FieldSets(k) ==
    IF k = 0 THEN { {} }
    ELSE LET S == FieldSets(k - 1)
         IN  S \cup { D \cup {f} : D \in S, f \in AllFields }

\* rows from which one or more fields are absent
Dropped == { Drop(r, D) : r \in OneEdit, D \in FieldSets(MaxMissing) \ { {} } }

RawRecords == TwoEdits \cup Dropped

\* the i-th row of the small table the pipeline runs on; row 1 is the example
RawRow(i) ==
    [ ExampleRecord EXCEPT !.cred = i % 2,
                           !.acct_bal = 1 + ((i - 1) % 4),
                           !.age = 68 - i ]

Dataset(n) == [ i \in 1..n |-> RawRow(i) ]

\* the same table, its last row lacking 'age'
BrokenDataset(n) == [ i \in 1..n |-> IF i = n THEN Drop(RawRow(i), {"age"}) ELSE RawRow(i) ]

----------------------------------------------------------------------------
(* The collaborators *)

Min(a, b) == IF a < b THEN a ELSE b

RECURSIVE GCD(_, _)
GCD(a, b) == IF b = 0 THEN a ELSE GCD(b, a % b)

\* a / float(b) for counts a and b > 0, as a fraction in lowest terms
Quot(a, b) == LET g == GCD(a, b) IN << a \div g, b \div g >>

\* the kernel's generator: a multiplicative congruential step
NextRand(s) == (s * 5) % 32

\* bit i-1 of the seed is the draw of element i: 1 sends it to the second part
ToSecond(s, i) == (s \div (2 ^ (i - 1))) % 2 = 1

RECURSIVE Filter(_, _, _)
\* rdd.filter: the elements of rdd from position i on that keep accepts, in order
Filter(rdd, keep, i) ==
    IF i > Len(rdd) THEN << >>
    ELSE IF keep[i] THEN << rdd[i] >> \o Filter(rdd, keep, i + 1)
         ELSE Filter(rdd, keep, i + 1)

\* rdd.randomSplit([0.8, 0.2], seed): every element lands in exactly one part;
\* both weights are positive, so every partition is a possible outcome
randomSplit(rdd, s) ==
    LET first  == [ i \in 1..Len(rdd) |-> ~ToSecond(s, i) ]
        second == [ i \in 1..Len(rdd) |-> ToSecond(s, i) ]
    IN  << Filter(rdd, first, 1), Filter(rdd, second, 1) >>

Count1(data) == Cardinality({ i \in 1..Len(data) : data[i].label = 1 })

Majority(data) == IF 2 * Count1(data) > Len(data) THEN 1 ELSE 0

Cats(data) == { data[i].features[1] : i \in 1..Len(data) }

Having(data, c) ==
    LET keep == [ i \in 1..Len(data) |-> data[i].features[1] = c ] IN Filter(data, keep, 1)

\* DecisionTree.trainClassifier on a non-empty RDD: the tree of the build's
\* learner, no deeper than maxDepth
trainClassifier(data, cfi, maxDepth, kind) ==
    LET d == IF kind = "majority" THEN 0 ELSE Min(maxDepth, Cardinality(Cats(data)) - 1)
        flip(l) == IF kind = "contrary" THEN 1 - l ELSE l
    IN  [ tag      |-> "DecisionTreeModel",
          depth    |-> d,
          numNodes |-> 2 * d + 1,
          leaf     |-> IF kind = "majority" THEN << >>
                       ELSE [ c \in Cats(data) |-> flip(Majority(Having(data, c))) ],
          default  |-> flip(Majority(data)) ]

\* model.predict(features)
predict(m, feats) ==
    IF feats[1] \in DOMAIN m.leaf THEN m.leaf[feats[1]] ELSE m.default

NoModel == [ tag |-> "undefined" ]

Learners == { "majority", "byAcct", "contrary" }

\* one trainClassifier call as the collaborator sees it
TrainCall(cell, o, d, cfi) ==
    [ cell |-> cell, obs |-> o, maxDepth |-> d, categoricalFeaturesInfo |-> cfi ]

----------------------------------------------------------------------------
(* The cells *)

Failed(e) == /\ pc' = "failed"
             /\ error' = e

\* dat.map(german_lp) over the partition
MapRows(d) == [ i \in 1..Len(d) |-> german_lp(d[i]) ]

\* lp = dat.map(german_lp).cache(); lp.take(3)
CellLp ==
    /\ pc = "cell_lp"
    /\ LET out == MapRows(dat) IN
       IF \E i \in 1..Len(out) : out[i].tag = "KeyError"
       THEN /\ Failed("KeyError")
            /\ UNCHANGED lp
       ELSE /\ lp' = out
            /\ pc' = "cell_model"
            /\ UNCHANGED error
    /\ UNCHANGED << dat, german_cfi, model, val_dat, obs, max_depth, lp_train,
                    lp_val, train_err, val_err, rng, seed, learner, nSplit,
                    trainLog >>

\* model = DecisionTree.trainClassifier(lp, ..., german_cfi, maxDepth=3, maxBins=5)
CellModel ==
    /\ pc = "cell_model"
    /\ Len(lp) > 0
    /\ trainLog' = Append(trainLog, TrainCall("single", 0, SingleMaxDepth, german_cfi))
    /\ model' = trainClassifier(lp, german_cfi, SingleMaxDepth, learner)
    /\ pc' = "cell_sweep"
    /\ UNCHANGED << error, dat, lp, german_cfi, val_dat, obs, max_depth,
                    lp_train, lp_val, train_err, val_err, rng, seed, learner,
                    nSplit >>

\* the same call raising
CellModelFail ==
    /\ pc = "cell_model"
    /\ trainLog' = Append(trainLog, TrainCall("single", 0, SingleMaxDepth, german_cfi))
    /\ Failed("TrainingFailure")
    /\ UNCHANGED << dat, lp, german_cfi, model, val_dat, obs, max_depth,
                    lp_train, lp_val, train_err, val_err, rng, seed, learner,
                    nSplit >>

\* val_dat = pd.DataFrame(columns=...), and the two loops entered
SweepStart ==
    /\ pc = "cell_sweep"
    /\ val_dat' = << >>
    /\ obs' = 0
    /\ max_depth' = DepthLo
    /\ pc' = "split"
    /\ UNCHANGED << error, dat, lp, german_cfi, model, lp_train, lp_val,
                    train_err, val_err, rng, seed, learner, nSplit, trainLog >>

\* a split drawn once per trial: kept while max_depth runs
SplitPerTrial ==
    /\ pc = "split"
    /\ IF max_depth = DepthLo
       THEN /\ seed' = rng
            /\ rng' = NextRand(rng)
            /\ lp_train' = randomSplit(lp, rng)[1]
            /\ lp_val' = randomSplit(lp, rng)[2]
            /\ nSplit' = nSplit + 1
       ELSE UNCHANGED << seed, rng, lp_train, lp_val, nSplit >>
    /\ pc' = "train"
    /\ UNCHANGED << error, dat, lp, german_cfi, model, val_dat, obs, max_depth,
                    train_err, val_err, learner, trainLog >>

\* (lp_train, lp_val) = lp.randomSplit([0.8, 0.2])
Split ==
    /\ pc = "split"
    /\ seed' = rng
    /\ rng' = NextRand(rng)
    /\ lp_train' = randomSplit(lp, rng)[1]
    /\ lp_val' = randomSplit(lp, rng)[2]
    /\ nSplit' = nSplit + 1
    /\ pc' = "train"
    /\ UNCHANGED << error, dat, lp, german_cfi, model, val_dat, obs, max_depth,
                    train_err, val_err, learner, trainLog >>

\* model = DecisionTree.trainClassifier(lp_train, ..., german_cfi, maxDepth=max_depth)
Train ==
    /\ pc = "train"
    /\ Len(lp_train) > 0
    /\ trainLog' = Append(trainLog, TrainCall("sweep", obs, max_depth, german_cfi))
    /\ model' = trainClassifier(lp_train, german_cfi, max_depth, learner)
    /\ pc' = "eval"
    /\ UNCHANGED << error, dat, lp, german_cfi, val_dat, obs, max_depth,
                    lp_train, lp_val, train_err, val_err, rng, seed, learner,
                    nSplit >>

\* a driver that catches the failure and calls the trainer again
TrainFailRetry ==
    /\ pc = "train"
    /\ trainLog' = Append(trainLog, TrainCall("sweep", obs, max_depth, german_cfi))
    /\ UNCHANGED << pc, error, dat, lp, german_cfi, model, val_dat, obs,
                    max_depth, lp_train, lp_val, train_err, val_err, rng, seed,
                    learner, nSplit >>

\* a driver that empties the table when the trainer raises
TrainFailDiscard ==
    /\ pc = "train"
    /\ trainLog' = Append(trainLog, TrainCall("sweep", obs, max_depth, german_cfi))
    /\ Failed("TrainingFailure")
    /\ val_dat' = << >>
    /\ UNCHANGED << dat, lp, german_cfi, model, obs, max_depth,
                    lp_train, lp_val, train_err, val_err, rng, seed, learner,
                    nSplit >>

\* the same call raising (always on an empty RDD): the exception leaves the cell
TrainFail ==
    /\ pc = "train"
    /\ trainLog' = Append(trainLog, TrainCall("sweep", obs, max_depth, german_cfi))
    /\ Failed("TrainingFailure")
    /\ UNCHANGED << dat, lp, german_cfi, model, val_dat, obs, max_depth,
                    lp_train, lp_val, train_err, val_err, rng, seed, learner,
                    nSplit >>

\* part.map(label).zip(model.predict(part.map(features)))
LabelsAndPredictions(m, part) ==
    [ i \in 1..Len(part) |-> << part[i].label, predict(m, part[i].features) >> ]

\* the error over the whole of lp instead of the part predicted on
ErrorRateOverAll(m, part) ==
    LET te == LabelsAndPredictions(m, part)
        differ == [ i \in 1..Len(te) |-> te[i][1] # te[i][2] ]
    IN  Quot(Len(Filter(te, differ, 1)), Len(lp))

\* x.filter(lambda (v, p): v != p).count() / float(x.count()), x not empty
ErrorRate(m, part) ==
    LET te == LabelsAndPredictions(m, part)
        differ == [ i \in 1..Len(te) |-> te[i][1] # te[i][2] ]
    IN  Quot(Len(Filter(te, differ, 1)), Len(te))

\* te, ve, train_err, val_err: the quotient over an empty part raises
Evaluate ==
    /\ pc = "eval"
    /\ train_err' = ErrorRate(model, lp_train)
    /\ IF Len(lp_val) = 0
       THEN /\ Failed("ZeroDivisionError")
            /\ UNCHANGED val_err
       ELSE /\ val_err' = ErrorRate(model, lp_val)
            /\ pc' = "append"
            /\ UNCHANGED error
    /\ UNCHANGED << dat, lp, german_cfi, model, val_dat, obs, max_depth,
                    lp_train, lp_val, rng, seed, learner, nSplit, trainLog >>

\* df.loc[k] = row with k one too small: the last row is written over
LocSetLast(df, k, row) ==
    IF Len(df) > 0 THEN [ df EXCEPT ![Len(df)] = row ] ELSE Append(df, row)

\* df.loc[k] = row on a frame labelled 0..len-1: label k is replaced when the
\* frame has it and added at the end when it has not
LocSet(df, k, row) ==
    IF k < Len(df) THEN [ df EXCEPT ![k + 1] = row ] ELSE Append(df, row)

\* the row appended, the inner loop written range(2,7)
AppendRowShortRange ==
    /\ pc = "append"
    /\ val_dat' = LocSet(val_dat, Len(val_dat),
                         [ obs |-> obs, max_depth |-> model.depth,
                           num_nodes |-> model.numNodes,
                           train_err |-> train_err, val_err |-> val_err ])
    /\ IF max_depth < DepthHi - 1
       THEN /\ max_depth' = max_depth + 1
            /\ pc' = "split"
            /\ UNCHANGED obs
       ELSE IF obs < NumTrials - 1
       THEN /\ obs' = obs + 1
            /\ max_depth' = DepthLo
            /\ pc' = "split"
       ELSE /\ pc' = "done"
            /\ UNCHANGED << obs, max_depth >>
    /\ UNCHANGED << error, dat, lp, german_cfi, model, lp_train, lp_val,
                    train_err, val_err, rng, seed, learner, nSplit, trainLog >>

\* val_dat.loc[len(val_dat)] = [obs, model.depth(), model.numNodes(), train_err, val_err]
\* and the loops' next values
AppendRow ==
    /\ pc = "append"
    /\ val_dat' = LocSet(val_dat, Len(val_dat),
                         [ obs |-> obs, max_depth |-> model.depth,
                           num_nodes |-> model.numNodes,
                           train_err |-> train_err, val_err |-> val_err ])
    /\ IF max_depth < DepthHi
       THEN /\ max_depth' = max_depth + 1
            /\ pc' = "split"
            /\ UNCHANGED obs
       ELSE IF obs < NumTrials - 1
       THEN /\ obs' = obs + 1
            /\ max_depth' = DepthLo
            /\ pc' = "split"
       ELSE /\ pc' = "done"
            /\ UNCHANGED << obs, max_depth >>
    /\ UNCHANGED << error, dat, lp, german_cfi, model, lp_train, lp_val,
                    train_err, val_err, rng, seed, learner, nSplit, trainLog >>

----------------------------------------------------------------------------
(* The specifications *)

\* the kernel before the first cell, for a given table
Start(d) ==
    /\ pc = "cell_lp"
    /\ error = "none"
    /\ dat = d
    /\ lp = << >>
    /\ german_cfi = GermanCfi
    /\ model = NoModel
    /\ val_dat = << >>
    /\ obs = 0
    /\ max_depth = DepthLo
    /\ lp_train = << >>
    /\ lp_val = << >>
    /\ train_err = << 0, 1 >>
    /\ val_err = << 0, 1 >>
    /\ seed = 0
    /\ nSplit = 0
    /\ trainLog = << >>

\* the notebook run on a small table
Init ==
    /\ \E n \in 1..MaxN : Start(Dataset(n)) \/ Start(BrokenDataset(n))
    /\ rng \in 0..MaxSeed
    /\ learner \in Learners

Next ==
    \/ CellLp
    \/ CellModel
    \/ CellModelFail
    \/ SweepStart
    \/ Split
    \/ Train
    \/ TrainFail
    \/ Evaluate
    \/ AppendRow

Spec == Init /\ [][Next]_vars

\* the transformer cell alone, on one-row tables of every record tried
InitLp ==
    /\ \E x \in RawRecords : Start(<< x >>)
    /\ rng = 0
    /\ learner = "majority"

NextLp == CellLp

SpecLp == InitLp /\ [][NextLp]_vars

----------------------------------------------------------------------------
(* The transformer: C1, C2, C6 (checked under SpecLp) *)

\* the zero-based positions whose field german_lp shifts by one
ShiftedPositions == { 0, 5, 6, 7, 8, 9, 10, 11, 13, 14, 15, 16, 17, 18, 19 }

\* C1: for every raw record holding all 21 fields the transformer returns the
\* raw 'cred' as the label and exactly 20 features in the fixed field order,
\* raw-1 at the shifted positions and the raw value at the others; the
\* example record gives label 1 and [0,6,4,2,1169,4,4,3,2,0,3,1,67,2,1,1,2,0,1,0].
C1_Transform ==
    (pc # "cell_lp" /\ AllFields \subseteq DOMAIN dat[1]) =>
        /\ pc = "cell_model"
        /\ Len(lp) = 1
        /\ lp[1].label = dat[1]["cred"]
        /\ Len(lp[1].features) = 20
        /\ \A p \in 0..19 :
              lp[1].features[p + 1] =
                  IF p \in ShiftedPositions
                  THEN dat[1][FeatureFields[p + 1]] - 1
                  ELSE dat[1][FeatureFields[p + 1]]
        /\ (dat[1] = ExampleRecord =>
              /\ lp[1].label = 1
              /\ lp[1].features =
                   << 0, 6, 4, 2, 1169, 4, 4, 3, 2, 0, 3, 1, 67, 2, 1, 1, 2, 0, 1, 0 >>)

C1_Witness ==
    /\ pc = "cell_model"
    /\ dat[1] = ExampleRecord
    /\ lp[1].label = 1
    /\ lp[1].features[5] = 1169

\* C2 as stated: whatever integers the fields hold, every shifted position of
\* the produced example holds a value >= 0.
C2_AnyRawNonNegative ==
    pc = "cell_model" =>
        \A p \in ShiftedPositions : lp[1].features[p + 1] >= 0

\* C2 amended: when every shifted field holds a raw value >= 1, every shifted
\* position of the produced example holds a value >= 0.
C2_OneBasedNonNegative ==
    (/\ pc = "cell_model"
     /\ \A p \in ShiftedPositions : dat[1][FeatureFields[p + 1]] >= 1) =>
        \A p \in ShiftedPositions : lp[1].features[p + 1] >= 0

C2_Witness ==
    /\ pc = "cell_model"
    /\ \A p \in ShiftedPositions : dat[1][FeatureFields[p + 1]] >= 1
    /\ dat[1]["value"] = 1
    /\ lp[1].features[6] = 0

\* C6: a raw record lacking one or more of the 21 fields makes the transformer
\* fail with a KeyError; no labeled example is produced for it, and no
\* default stands in for the missing value.
C6_MissingFieldFails ==
    (pc # "cell_lp" /\ ~(AllFields \subseteq DOMAIN dat[1])) =>
        /\ pc = "failed"
        /\ error = "KeyError"
        /\ lp = << >>

C6_Witness ==
    /\ pc = "failed"
    /\ error = "KeyError"
    /\ "cred" \in DOMAIN dat[1]
    /\ "age" \notin DOMAIN dat[1]
    /\ lp = << >>

----------------------------------------------------------------------------
(* The sweep: C3, C4, C5, C7, C8, C9, C10 (checked under Spec) *)

\* the sweep has made a trainClassifier call and that call was the last one
LastCallInSweep ==
    /\ Len(trainLog) > 0
    /\ trainLog[Len(trainLog)].cell = "sweep"

\* C3: a sweep in which no call fails ends with exactly 180 rows, one per
\* (trial, max_depth) iteration, written trial by trial (30 trials) with the
\* depth candidates 2..7 ascending inside each trial.
C3_FullSweep ==
    pc = "done" =>
        /\ error = "none"
        /\ Len(val_dat) = 180
        /\ Len(trainLog) = 181
        /\ \A k \in 1..180 :
              /\ val_dat[k].obs = (k - 1) \div 6
              /\ trainLog[k + 1].cell = "sweep"
              /\ trainLog[k + 1].obs = (k - 1) \div 6
              /\ trainLog[k + 1].maxDepth = 2 + ((k - 1) % 6)
              /\ val_dat[k].max_depth <= trainLog[k + 1].maxDepth

C3_Witness ==
    /\ pc = "done"
    /\ Len(val_dat) = 180
    /\ val_dat[180].obs = 29

\* C4 as stated: after a training call failed in the sweep, the result table
\* holds none of the rows of that run.
C4_RowsDiscarded ==
    (pc = "failed" /\ error = "TrainingFailure" /\ LastCallInSweep) =>
        val_dat = << >>

\* C4 amended: a training call that fails in the sweep leaves the table as it
\* was: the rows of the iterations completed before the failure stay, one per
\* completed iteration, and none is discarded.
C4_RowsKept ==
    [][ (pc = "train" /\ pc' = "failed") =>
            /\ error' = "TrainingFailure"
            /\ val_dat' = val_dat
            /\ Len(val_dat') = 6 * obs + (max_depth - 2) ]_vars

C4_Witness ==
    /\ pc = "failed"
    /\ error = "TrainingFailure"
    /\ LastCallInSweep
    /\ Len(val_dat) >= 7

\* C5: no retry: every step that calls the trainer calls it once, for an
\* iteration it was not called for before; a failure ends the run, and after
\* it no training call, prediction or row append happens.
C5_NoRetry ==
    [][ /\ pc # "failed"
        /\ (error' # "none" => pc' = "failed")
        /\ (trainLog' # trainLog =>
              /\ Len(trainLog') = Len(trainLog) + 1
              /\ SubSeq(trainLog', 1, Len(trainLog)) = trainLog
              /\ \A i \in 1..Len(trainLog) :
                    << trainLog[i].cell, trainLog[i].obs, trainLog[i].maxDepth >>
                      # << trainLog'[Len(trainLog')].cell,
                           trainLog'[Len(trainLog')].obs,
                           trainLog'[Len(trainLog')].maxDepth >>) ]_vars

C5_Witness ==
    /\ pc = "failed"
    /\ error = "TrainingFailure"
    /\ LastCallInSweep
    /\ Len(trainLog) >= 3
    /\ Len(trainLog) = Len(val_dat) + 2


\* C7: in every iteration the two parts of the split hold together as many
\* examples as lp, and a split is drawn in every inner iteration: the
\* iteration of trial obs and depth max_depth works on split number
\* 6 * obs + (max_depth - 2) + 1.
C7_SplitPerIteration ==
    /\ pc \in { "train", "eval", "append" } =>
          /\ Len(lp_train) + Len(lp_val) = Len(lp)
          /\ nSplit = 6 * obs + (max_depth - 2) + 1
    /\ pc = "split" => nSplit = 6 * obs + (max_depth - 2)
    /\ pc = "done" => nSplit = 180

\* a later iteration whose partition differs from the one drawn before it
C7_Witness ==
    /\ pc = "train"
    /\ nSplit >= 2
    /\ Len(lp_train) > 0
    /\ Len(lp_val) > 0
    /\ Len(lp_train) + Len(lp_val) = Len(lp)
    /\ \E r \in 0..31 :
          /\ NextRand(r) = seed
          /\ randomSplit(lp, r) # << lp_train, lp_val >>

\* C8: the two errors of the row an iteration writes are the number of
\* examples of the part whose prediction differs from the label, divided by
\* the size of that same part: 0 when none differs, 1 when all differ, and
\* always within [0, 1].
C8_ErrorRate ==
    (pc \in { "split", "done" } /\ Len(val_dat) > 0) =>
        LET row == val_dat[Len(val_dat)]
            Wrong(part) == Cardinality({ i \in 1..Len(part) :
                               predict(model, part[i].features) # part[i].label })
            IsRate(e, part) ==
                /\ Len(part) > 0
                /\ e[2] > 0
                /\ e[1] * Len(part) = Wrong(part) * e[2]
                /\ 0 <= e[1]
                /\ e[1] <= e[2]
                /\ (Wrong(part) = 0 => e = << 0, 1 >>)
                /\ (Wrong(part) = Len(part) => e = << 1, 1 >>)
        IN  /\ IsRate(row.train_err, lp_train)
            /\ IsRate(row.val_err, lp_val)

\* a row with a training error strictly between 0 and 1 and a validation error of 1
C8_Witness ==
    /\ pc = "split"
    /\ Len(val_dat) > 0
    /\ val_dat[Len(val_dat)].train_err = << 1, 2 >>
    /\ val_dat[Len(val_dat)].val_err = << 1, 1 >>

\* C9: every trainer call (the single-model cell and each sweep iteration) is
\* given the one registry {0:4, 5:5, 6:5, 7:4, 8:4, 9:3, 10:4, 11:4, 13:3,
\* 14:3, 15:4, 16:4, 17:2, 18:2, 19:2}; its keys are feature positions of the
\* transformer's output, its cardinalities are >= 2, and no step changes it.
C9_Registry ==
    LET fixed == (0 :> 4) @@ (5 :> 5) @@ (6 :> 5) @@ (7 :> 4) @@ (8 :> 4) @@
                 (9 :> 3) @@ (10 :> 4) @@ (11 :> 4) @@ (13 :> 3) @@ (14 :> 3) @@
                 (15 :> 4) @@ (16 :> 4) @@ (17 :> 2) @@ (18 :> 2) @@ (19 :> 2)
    IN  /\ german_cfi = fixed
        /\ \A i \in 1..Len(trainLog) : trainLog[i].categoricalFeaturesInfo = german_cfi
        /\ \A k \in DOMAIN german_cfi :
              /\ german_cfi[k] >= 2
              /\ \A j \in 1..Len(lp) : (0 <= k /\ k < Len(lp[j].features))

C9_Witness ==
    /\ Len(trainLog) >= 3
    /\ trainLog[1].cell = "single"
    /\ trainLog[3].cell = "sweep"
    /\ Len(lp) > 0

\* C10: the result table is append-only: it is empty until the sweep starts,
\* its length is the number of completed iterations, a completed iteration
\* adds one row after the rows already there, and no step changes or removes
\* a row written before.
C10_AppendOnly ==
    /\ [](pc \in { "cell_lp", "cell_model", "cell_sweep" } => val_dat = << >>)
    /\ [](pc \in { "split", "train", "eval", "append" } =>
              Len(val_dat) = 6 * obs + (max_depth - 2))
    /\ [](pc = "done" => Len(val_dat) = 6 * obs + (max_depth - 2) + 1)
    /\ [][ /\ SubSeq(val_dat', 1, Len(val_dat)) = val_dat
           /\ (pc = "append" => Len(val_dat') = Len(val_dat) + 1)
           /\ (pc # "append" => val_dat' = val_dat) ]_vars

C10_Witness ==
    /\ pc = "eval"
    /\ Len(val_dat) >= 2
    /\ val_dat[1] # val_dat[2]

----------------------------------------------------------------------------
(* The transformer against the registry: C11 (checked under SpecLp) *)

\* C11: the positions german_lp shifts by one are exactly the keys of
\* german_cfi: a registered position holds raw-1, any other position holds the
\* raw value; and at a registered position i a raw value in 1..german_cfi[i]
\* gives a feature value in 0..german_cfi[i]-1.
C11_SchemaAgreement ==
    pc = "cell_model" =>
        /\ DOMAIN german_cfi \subseteq 0..(Len(lp[1].features) - 1)
        /\ \A p \in 0..(Len(lp[1].features) - 1) :
              LET raw  == dat[1][FeatureFields[p + 1]]
                  feat == lp[1].features[p + 1]
              IN  IF p \in DOMAIN german_cfi
                  THEN /\ feat = raw - 1
                       /\ (raw \in 1..german_cfi[p] =>
                              feat \in 0..(german_cfi[p] - 1))
                  ELSE feat = raw

\* two registered fields at their highest category, one continuous field edited
C11_Witness ==
    /\ pc = "cell_model"
    /\ dat[1]["acct_bal"] = german_cfi[0]
    /\ lp[1].features[1] = german_cfi[0] - 1
    /\ dat[1]["len_emp"] = german_cfi[6]
    /\ lp[1].features[7] = 4
    /\ dat[1]["pay_stat"] = 0
    /\ lp[1].features[3] = 0

====
